---------------------------- MODULE Spec2Model ----------------------------
(***************************************************************************)
(* HRSC2016 annotation conversion: tools/hrsc_to_dota_all_levels.py (the   *)
(* batch converter, convert_split) and tools/dota_to_coco_multilevel.py    *)
(* (the assembler, convert_one_split).                                     *)
(*                                                                         *)
(* Text is modelled character by character: a Python str is a sequence of  *)
(* one-character strings, so that strip, lower, replace, split, the        *)
(* regular expressions and the substring tests do what they do in Python.  *)
(* A Python float is an integer number of halves (8.5 is 17); the inputs   *)
(* are whole numbers, so every w / 2.0 is exact.  An area is a number of   *)
(* eighths.  Rotation angles are whole quarter turns, where the rotation   *)
(* matrix has the entries -1, 0 and 1.                                     *)
(***************************************************************************)
EXTENDS Integers, Sequences, FiniteSets, TLC

(***************************************************************************)
(* Python str operations                                                   *)
(***************************************************************************)
Whitespace == {" ", "\t", "\n", "\r"}

UpperCase == <<"A","B","C","D","E","F","G","H","I","J","K","L","M","N","O","P","Q","R","S","T","U","V","W","X","Y","Z">>

LowerCase == <<"a","b","c","d","e","f","g","h","i","j","k","l","m","n","o","p","q","r","s","t","u","v","w","x","y","z">>

DigitChars == <<"0","1","2","3","4","5","6","7","8","9">>

\* the characters the pattern [^0-9a-zA-Z_] does not match
WordChars == {UpperCase[i] : i \in DOMAIN UpperCase} \cup {LowerCase[i] : i \in DOMAIN LowerCase}
               \cup {DigitChars[i] : i \in DOMAIN DigitChars} \cup {"_"}

LowerChar(c) ==
  IF \E i \in DOMAIN UpperCase : UpperCase[i] = c
  THEN LowerCase[CHOOSE i \in DOMAIN UpperCase : UpperCase[i] = c]
  ELSE c

\* str.lower()
lower(s) == [i \in 1..Len(s) |-> LowerChar(s[i])]

RECURSIVE lstrip(_, _)
lstrip(s, cs) == IF s # <<>> /\ Head(s) \in cs THEN lstrip(Tail(s), cs) ELSE s

RECURSIVE rstrip(_, _)
rstrip(s, cs) ==
  IF s # <<>> /\ s[Len(s)] \in cs THEN rstrip(SubSeq(s, 1, Len(s) - 1), cs) ELSE s

\* str.strip(): cs is Whitespace for strip(), {"_"} for strip('_')
strip(s, cs) == rstrip(lstrip(s, cs), cs)

\* sub in s
contains(sub, s) ==
  \E i \in 0..(Len(s) - Len(sub)) : SubSeq(s, i + 1, i + Len(sub)) = sub

\* s.endswith(suf)
endswith(s, suf) ==
  Len(suf) <= Len(s) /\ SubSeq(s, Len(s) - Len(suf) + 1, Len(s)) = suf

\* s.replace(a, b) for one-character a and b
replace(s, a, b) == [i \in 1..Len(s) |-> IF s[i] = a THEN b ELSE s[i]]

\* re.sub(<class>+, '_', s): every maximal run of characters of the class
\* becomes one underscore; the class is cs, or its complement when neg
RECURSIVE sub_runs(_, _, _)
sub_runs(s, cs, neg) ==
  IF s = <<>> THEN <<>>
  ELSE IF (Head(s) \in cs) # neg
       THEN LET RECURSIVE skip(_)
                skip(t) == IF t # <<>> /\ ((Head(t) \in cs) # neg) THEN skip(Tail(t)) ELSE t
            IN <<"_">> \o sub_runs(skip(s), cs, neg)
       ELSE <<Head(s)>> \o sub_runs(Tail(s), cs, neg)

\* str.split(): the maximal runs of non-whitespace characters
RECURSIVE split(_)
split(s) ==
  LET t == lstrip(s, Whitespace) IN
  IF t = <<>> THEN <<>>
  ELSE LET n == IF \E i \in 1..Len(t) : t[i] \in Whitespace
                THEN CHOOSE i \in 1..Len(t) :
                       t[i] \in Whitespace /\ \A j \in 1..(i - 1) : t[j] \notin Whitespace
                ELSE Len(t) + 1
       IN <<SubSeq(t, 1, n - 1)>> \o split(SubSeq(t, n, Len(t)))

\* sep.join(parts)
RECURSIVE join(_, _)
join(sep, parts) ==
  IF parts = <<>> THEN <<>>
  ELSE IF Len(parts) = 1 THEN parts[1]
  ELSE parts[1] \o sep \o join(sep, Tail(parts))

Abs(n) == IF n < 0 THEN -n ELSE n

RECURSIVE str_int(_)
str_int(n) ==
  IF n < 10 THEN <<DigitChars[n + 1]>>
  ELSE str_int(n \div 10) \o <<DigitChars[(n % 10) + 1]>>

\* f"{x}" of a float x (repr): sign, integer part, '.', fraction
float_str(v) ==
  (IF v < 0 THEN <<"-">> ELSE <<>>) \o str_int(Abs(v) \div 2)
     \o (IF Abs(v) % 2 = 1 THEN <<".","5">> ELSE <<".","0">>)

IsDigits(s) == s # <<>> /\ \A i \in 1..Len(s) : \E d \in DOMAIN DigitChars : DigitChars[d] = s[i]

RECURSIVE int_of(_)
int_of(s) ==
  IF s = <<>> THEN 0
  ELSE 10 * int_of(SubSeq(s, 1, Len(s) - 1))
         + (CHOOSE d \in 0..9 : DigitChars[d + 1] = s[Len(s)])

\* float(text): <<v>>, or <<>> for the ValueError.  The numerals read are
\* [sign] digits [ '.' ('0' | '5') ], surrounded by optional whitespace.

float_of(text) ==
  LET t    == strip(text, Whitespace)
      neg  == t # <<>> /\ Head(t) = "-"
      u    == IF t # <<>> /\ Head(t) \in {"-", "+"} THEN Tail(t) ELSE t
      dot  == IF \E i \in 1..Len(u) : u[i] = "." THEN CHOOSE i \in 1..Len(u) : u[i] = "." /\ \A j \in 1..(i-1) : u[j] # "."
              ELSE Len(u) + 1
      ip   == SubSeq(u, 1, dot - 1)
      fp   == SubSeq(u, dot + 1, Len(u))
  IN IF IsDigits(ip) /\ fp \in {<<>>, <<"0">>, <<"5">>}
     THEN << (IF neg THEN -1 ELSE 1) * (2 * int_of(ip) + (IF fp = <<"5">> THEN 1 ELSE 0)) >>
     ELSE <<>>

(***************************************************************************)
(* hrsc_to_dota_all_levels.py                                              *)
(***************************************************************************)

\* math.cos(ang), math.sin(ang) of ang quarter turns
cos_sin(ang) ==
  CASE ang % 4 = 0 -> <<1, 0>>
    [] ang % 4 = 1 -> <<0, 1>>
    [] ang % 4 = 2 -> <<-1, 0>>
    [] ang % 4 = 3 -> <<0, -1>>

\* variant: the corner list starts at the bottom left
rbox2poly_single_blfirst(rbox) ==
  LET cx == rbox[1]  cy == rbox[2]
      dx == rbox[3] \div 2   dy == rbox[4] \div 2
      pts == << <<-dx, dy>>, <<dx, dy>>, <<dx, -dy>>, <<-dx, -dy>> >>
      ca == cos_sin(rbox[5])[1]   sa == cos_sin(rbox[5])[2]
  IN [k \in 1..8 |->
        LET x == pts[(k + 1) \div 2][1]   y == pts[(k + 1) \div 2][2]
        IN IF k % 2 = 1 THEN x * ca - y * sa + cx ELSE x * sa + y * ca + cy]

\* rbox = <<cx, cy, w, h, ang>> -> <<x1, y1, x2, y2, x3, y3, x4, y4>>
rbox2poly_single(rbox) ==
  LET cx == rbox[1]  cy == rbox[2]
      dx == rbox[3] \div 2   dy == rbox[4] \div 2
      pts == << <<-dx, -dy>>, <<dx, -dy>>, <<dx, dy>>, <<-dx, dy>> >>
      ca == cos_sin(rbox[5])[1]   sa == cos_sin(rbox[5])[2]
  IN [k \in 1..8 |->
        LET x == pts[(k + 1) \div 2][1]   y == pts[(k + 1) \div 2][2]
        IN IF k % 2 = 1 THEN x * ca - y * sa + cx ELSE x * sa + y * ca + cy]

HRSC_CLASSES ==
  <<
    <<"s","h","i","p">>,
    <<"a","i","r","c","r","a","f","t"," ","c","a","r","r","i","e","r">>,
    <<"w","a","r","c","r","a","f","t">>,
    <<"m","e","r","c","h","a","n","t"," ","s","h","i","p">>,
    <<"N","i","m","i","t","z">>,
    <<"E","n","t","e","r","p","r","i","s","e">>,
    <<"A","r","l","e","i","g","h"," ","B","u","r","k","e">>,
    <<"W","h","i","d","b","e","y","I","s","l","a","n","d">>,
    <<"P","e","r","r","y">>,
    <<"S","a","n","a","n","t","o","n","i","o">>,
    <<"T","i","c","o","n","d","e","r","o","g","a">>,
    <<"K","i","t","t","y"," ","H","a","w","k">>,
    <<"K","u","z","n","e","t","s","o","v">>,
    <<"A","b","u","k","u","m","a">>,
    <<"A","u","s","t","e","n">>,
    <<"T","a","r","a","w","a">>,
    <<"B","l","u","e"," ","R","i","d","g","e">>,
    <<"C","o","n","t","a","i","n","e","r">>,
    <<"O","X","o","|","-","-",")">>,
    <<"C","a","r"," ","c","a","r","r","i","e","r","(","[","]","=","=","[","]",")">>,
    <<"H","o","v","e","r","c","r","a","f","t">>,
    <<"y","a","c","h","t">>,
    <<"C","n","t","S","h","i","p","(","_","|",".","-","-",".","-","-","|","_","]","=">>,
    <<"C","r","u","i","s","e">>,
    <<"s","u","b","m","a","r","i","n","e">>,
    <<"l","u","t","e">>,
    <<"M","e","d","i","c","a","l">>,
    <<"C","a","r"," ","c","a","r","r","i","e","r","(","=","=","=","=","=","=","|">>,
    <<"F","o","r","d","-","c","l","a","s","s">>,
    <<"M","i","d","w","a","y","-","c","l","a","s","s">>,
    <<"I","n","v","i","n","c","i","b","l","e","-","c","l","a","s","s">> >>

HRSC_CLASSES_ID ==
  <<
    <<"0","1">>,
    <<"0","2">>,
    <<"0","3">>,
    <<"0","4">>,
    <<"0","5">>,
    <<"0","6">>,
    <<"0","7">>,
    <<"0","8">>,
    <<"0","9">>,
    <<"1","0">>,
    <<"1","1">>,
    <<"1","2">>,
    <<"1","3">>,
    <<"1","4">>,
    <<"1","5">>,
    <<"1","6">>,
    <<"1","7">>,
    <<"1","8">>,
    <<"1","9">>,
    <<"2","0">>,
    <<"2","2">>,
    <<"2","4">>,
    <<"2","5">>,
    <<"2","6">>,
    <<"2","7">>,
    <<"2","8">>,
    <<"2","9">>,
    <<"3","0">>,
    <<"3","1">>,
    <<"3","2">>,
    <<"3","3">> >>

\* full2name of build_id_maps, as a lookup: '1000000' + two-digit id -> name,
\* default 'ship' (full2l3.get(class_id, 'ship'))
full2l3_get(class_id) ==
  IF \E i \in DOMAIN HRSC_CLASSES_ID : <<"1","0","0","0","0","0","0">> \o HRSC_CLASSES_ID[i] = class_id
  THEN HRSC_CLASSES[CHOOSE i \in DOMAIN HRSC_CLASSES_ID : <<"1","0","0","0","0","0","0">> \o HRSC_CLASSES_ID[i] = class_id]
  ELSE <<"s","h","i","p">>

carrier_keys ==
  << <<"n","i","m","i","t","z">>, <<"e","n","t","e","r","p","r","i","s","e">>, <<"k","i","t","t","y"," ","h","a","w","k">>, <<"k","u","z","n","e","t","s","o","v">>,
     <<"f","o","r","d","-","c","l","a","s","s">>, <<"m","i","d","w","a","y","-","c","l","a","s","s">>, <<"i","n","v","i","n","c","i","b","l","e","-","c","l","a","s","s">> >>

warship_keys ==
  << <<"a","r","l","e","i","g","h"," ","b","u","r","k","e">>, <<"w","h","i","d","b","e","y","i","s","l","a","n","d">>, <<"p","e","r","r","y">>, <<"s","a","n","a","n","t","o","n","i","o">>,
     <<"t","i","c","o","n","d","e","r","o","g","a">>, <<"a","b","u","k","u","m","a">>, <<"a","u","s","t","e","n">>, <<"t","a","r","a","w","a">>, <<"b","l","u","e"," ","r","i","d","g","e">> >>

merchant_keys ==
  << <<"c","o","n","t","a","i","n","e","r">>, <<"c","n","t","s","h","i","p">>, <<"c","a","r"," ","c","a","r","r","i","e","r">>, <<"c","r","u","i","s","e">>, <<"y","a","c","h","t">>,
     <<"h","o","v","e","r","c","r","a","f","t">>, <<"m","e","d","i","c","a","l">>, <<"l","u","t","e">>, <<"o","x","o","|","-","-",")">> >>

any_in(keys, n) == \E i \in DOMAIN keys : contains(keys[i], n)

\* variant: the fallback of the rule cascade is 'merchant ship'
l3_to_l2_fallback_merchant(name) ==
  LET n == lower(strip(name, Whitespace)) IN
  IF contains(<<"s","u","b","m","a","r","i","n","e">>, n) THEN <<"s","u","b","m","a","r","i","n","e">>
  ELSE IF contains(<<"a","i","r","c","r","a","f","t"," ","c","a","r","r","i","e","r">>, n) \/ contains(<<"c","a","r","r","i","e","r">>, n) THEN <<"a","i","r","c","r","a","f","t"," ","c","a","r","r","i","e","r">>
  ELSE IF n = <<"w","a","r","c","r","a","f","t">> THEN <<"w","a","r","s","h","i","p">>
  ELSE IF n = <<"m","e","r","c","h","a","n","t"," ","s","h","i","p">> THEN <<"m","e","r","c","h","a","n","t"," ","s","h","i","p">>
  ELSE IF any_in(carrier_keys, n) THEN <<"a","i","r","c","r","a","f","t"," ","c","a","r","r","i","e","r">>
  ELSE IF any_in(warship_keys, n) THEN <<"w","a","r","s","h","i","p">>
  ELSE <<"m","e","r","c","h","a","n","t"," ","s","h","i","p">>

l3_to_l2(name) ==
  LET n == lower(strip(name, Whitespace)) IN
  IF contains(<<"s","u","b","m","a","r","i","n","e">>, n) THEN <<"s","u","b","m","a","r","i","n","e">>
  ELSE IF contains(<<"a","i","r","c","r","a","f","t"," ","c","a","r","r","i","e","r">>, n) \/ contains(<<"c","a","r","r","i","e","r">>, n) THEN <<"a","i","r","c","r","a","f","t"," ","c","a","r","r","i","e","r">>
  ELSE IF n = <<"w","a","r","c","r","a","f","t">> THEN <<"w","a","r","s","h","i","p">>
  ELSE IF n = <<"m","e","r","c","h","a","n","t"," ","s","h","i","p">> THEN <<"m","e","r","c","h","a","n","t"," ","s","h","i","p">>
  ELSE IF any_in(carrier_keys, n) THEN <<"a","i","r","c","r","a","f","t"," ","c","a","r","r","i","e","r">>
  ELSE IF any_in(warship_keys, n) THEN <<"w","a","r","s","h","i","p">>
  ELSE IF any_in(merchant_keys, n) THEN <<"m","e","r","c","h","a","n","t"," ","s","h","i","p">>
  ELSE IF n = <<"s","h","i","p">> THEN <<"s","h","i","p">>
  ELSE <<"s","h","i","p">>

sanitize_label(s) ==
  LET s1 == replace(lower(strip(s, Whitespace)), " ", "_")
      s2 == sub_runs(s1, WordChars, TRUE)
      s3 == strip(sub_runs(s2, {"_"}, FALSE), {"_"})
  IN IF s3 # <<>> THEN s3 ELSE <<"s","h","i","p">>


\* the numerals of mbox_ang that are read: 0 and +-pi/2, as quarter turns
HalfPi == <<"1",".","5","7","0","7","9","6","3","2","6","7","9","4","8","9","6","6">>

ang_of(text) ==
  LET t == strip(text, Whitespace) IN
  IF t = HalfPi THEN <<1>>
  ELSE IF t = <<"-">> \o HalfPi THEN <<3>>
  ELSE IF float_of(t) = <<0>> THEN <<0>>
  ELSE <<>>

\* An annotation document: kind "malformed" (ET.parse raises), "noobjects"
\* (no HRSC_Objects element) or "objects" with objs, the sequence of its
\* HRSC_Object elements, each a record of the texts of its fields (<<>> for
\* a missing or empty one).

\* one HRSC_Object -> <<>> (skipped) or << <<poly, class_id, diff>> >>
parse_xml_item(obj) ==
  LET class_id == strip(obj.Class_ID, Whitespace)
      diff == IF strip(IF obj.difficult # <<>> THEN obj.difficult ELSE <<"0">>, Whitespace) = <<"1">>
              THEN 1 ELSE 0
      cx == float_of(obj.mbox_cx)
      cy == float_of(obj.mbox_cy)
      w  == float_of(obj.mbox_w)
      h  == float_of(obj.mbox_h)
      ang == ang_of(obj.mbox_ang)
  IN IF <<>> \in {cx, cy, w, h, ang} THEN <<>>
     ELSE << <<rbox2poly_single(<<cx[1], cy[1], w[1], h[1], ang[1]>>), class_id, diff>> >>

RECURSIVE parse_xml_objects(_)
parse_xml_objects(objs) ==
  IF objs = <<>> THEN <<>>
  ELSE parse_xml_item(Head(objs)) \o parse_xml_objects(Tail(objs))

parse_xml_items(doc) ==
  IF doc.kind = "malformed" THEN <<>>
  ELSE IF doc.kind = "noobjects" THEN <<>>
  ELSE parse_xml_objects(doc.objs)

\* variant: an empty row list writes no file at all
write_labeltxt_skip_empty(dir, path, rows) ==
  IF rows = <<>> THEN dir
  ELSE [n \in DOMAIN dir \cup {path} |->
          IF n = path THEN join(<<"\n">>, rows) \o <<"\n">> ELSE dir[n]]

\* a directory is the function from the names of its files to their text;
\* open(path, 'w') creates or truncates the file
write_labeltxt(dir, path, rows) ==
  [n \in DOMAIN dir \cup {path} |->
     IF n = path
     THEN IF rows = <<>> THEN <<>> ELSE join(<<"\n">>, rows) \o <<"\n">>
     ELSE dir[n]]

\* os.path.splitext(n)[0]: up to the last dot, unless only dots precede it
splitext_stem(n) ==
  IF \E i \in 1..Len(n) : n[i] = "." /\ \E j \in 1..(i - 1) : n[j] # "."
  THEN LET i == CHOOSE k \in 1..Len(n) : n[k] = "." /\ \A j \in (k + 1)..Len(n) : n[j] # "."
       IN IF \E j \in 1..(i - 1) : n[j] # "." THEN SubSeq(n, 1, i - 1) ELSE n
  ELSE n

image_exts == << <<".","b","m","p">>, <<".","j","p","g">>, <<".","p","n","g">>, <<".","t","i","f">>, <<".","t","i","f","f">> >>

is_image_name(n) == \E i \in DOMAIN image_exts : endswith(lower(n), image_exts[i])

\* f"{x1} {y1} {x2} {y2} {x3} {y3} {x4} {y4} {name} {diff}"
row_text(poly, name, diff) ==
  join(<<" ">>, [k \in 1..8 |-> float_str(poly[k])] \o <<name, str_int(diff)>>)

\* variant: the strict_l2 test is applied with the opposite sense
l2_rows_of_inverted(items, strict) ==
  LET RECURSIVE go(_)
      go(its) ==
        IF its = <<>> THEN <<>>
        ELSE LET it == Head(its)
                 l2_name == l3_to_l2(full2l3_get(it[2]))
             IN (IF l2_name = <<"s","h","i","p">> /\ ~strict THEN <<>>
                 ELSE <<row_text(it[1], l2_name, it[3])>>) \o go(Tail(its))
  IN go(items)

\* rows_l2 of one image (lines 229-235)
l2_rows_of(items, strict) ==
  LET RECURSIVE go(_)
      go(its) ==
        IF its = <<>> THEN <<>>
        ELSE LET it == Head(its)
                 l2_name == l3_to_l2(full2l3_get(it[2]))
             IN (IF l2_name = <<"s","h","i","p">> /\ strict THEN <<>>
                 ELSE <<row_text(it[1], l2_name, it[3])>>) \o go(Tail(its))
  IN go(items)

\* rows_l1 of one image (line 238)
l1_rows_of(items) == [k \in 1..Len(items) |-> row_text(items[k][1], <<"s","h","i","p">>, items[k][3])]

\* l3_for_write (lines 226-227)
l3_name_for_write(class_id, sanitize) ==
  IF sanitize THEN sanitize_label(full2l3_get(class_id)) ELSE full2l3_get(class_id)

\* rows_l3 of one image (line 240)
l3_rows_of(items, sanitize) ==
  [k \in 1..Len(items) |->
     row_text(items[k][1], l3_name_for_write(items[k][2], sanitize), items[k][3])]


(***************************************************************************)
(* dota_to_coco_multilevel.py                                              *)
(***************************************************************************)
L1_NAMES == << <<"s","h","i","p">> >>

L2_NAMES == << <<"a","i","r","c","r","a","f","t"," ","c","a","r","r","i","e","r">>, <<"w","a","r","s","h","i","p">>, <<"m","e","r","c","h","a","n","t"," ","s","h","i","p">>, <<"s","u","b","m","a","r","i","n","e">> >>

L3_NAMES_RAW ==
  <<
    <<"s","h","i","p">>,
    <<"a","i","r","c","r","a","f","t"," ","c","a","r","r","i","e","r">>,
    <<"w","a","r","c","r","a","f","t">>,
    <<"m","e","r","c","h","a","n","t"," ","s","h","i","p">>,
    <<"N","i","m","i","t","z">>,
    <<"E","n","t","e","r","p","r","i","s","e">>,
    <<"A","r","l","e","i","g","h"," ","B","u","r","k","e">>,
    <<"W","h","i","d","b","e","y","I","s","l","a","n","d">>,
    <<"P","e","r","r","y">>,
    <<"S","a","n","a","n","t","o","n","i","o">>,
    <<"T","i","c","o","n","d","e","r","o","g","a">>,
    <<"K","i","t","t","y"," ","H","a","w","k">>,
    <<"K","u","z","n","e","t","s","o","v">>,
    <<"A","b","u","k","u","m","a">>,
    <<"A","u","s","t","e","n">>,
    <<"T","a","r","a","w","a">>,
    <<"B","l","u","e"," ","R","i","d","g","e">>,
    <<"C","o","n","t","a","i","n","e","r">>,
    <<"O","X","o","|","-","-",")">>,
    <<"C","a","r"," ","c","a","r","r","i","e","r","(","[","]","=","=","[","]",")">>,
    <<"H","o","v","e","r","c","r","a","f","t">>,
    <<"y","a","c","h","t">>,
    <<"C","n","t","S","h","i","p","(","_","|",".","-","-",".","-","-","|","_","]","=">>,
    <<"C","r","u","i","s","e">>,
    <<"s","u","b","m","a","r","i","n","e">>,
    <<"l","u","t","e">>,
    <<"M","e","d","i","c","a","l">>,
    <<"C","a","r"," ","c","a","r","r","i","e","r","(","=","=","=","=","=","=","|">>,
    <<"F","o","r","d","-","c","l","a","s","s">>,
    <<"M","i","d","w","a","y","-","c","l","a","s","s">>,
    <<"I","n","v","i","n","c","i","b","l","e","-","c","l","a","s","s">> >>

L3_NAMES_SANITIZED ==
  <<
    <<"s","h","i","p">>,
    <<"a","i","r","c","r","a","f","t","_","c","a","r","r","i","e","r">>,
    <<"w","a","r","c","r","a","f","t">>,
    <<"m","e","r","c","h","a","n","t","_","s","h","i","p">>,
    <<"n","i","m","i","t","z">>,
    <<"e","n","t","e","r","p","r","i","s","e">>,
    <<"a","r","l","e","i","g","h","_","b","u","r","k","e">>,
    <<"w","h","i","d","b","e","y","i","s","l","a","n","d">>,
    <<"p","e","r","r","y">>,
    <<"s","a","n","a","n","t","o","n","i","o">>,
    <<"t","i","c","o","n","d","e","r","o","g","a">>,
    <<"k","i","t","t","y","_","h","a","w","k">>,
    <<"k","u","z","n","e","t","s","o","v">>,
    <<"a","b","u","k","u","m","a">>,
    <<"a","u","s","t","e","n">>,
    <<"t","a","r","a","w","a">>,
    <<"b","l","u","e","_","r","i","d","g","e">>,
    <<"c","o","n","t","a","i","n","e","r">>,
    <<"o","x","o">>,
    <<"c","a","r","_","c","a","r","r","i","e","r">>,
    <<"h","o","v","e","r","c","r","a","f","t">>,
    <<"y","a","c","h","t">>,
    <<"c","n","t","s","h","i","p">>,
    <<"c","r","u","i","s","e">>,
    <<"s","u","b","m","a","r","i","n","e">>,
    <<"l","u","t","e">>,
    <<"m","e","d","i","c","a","l">>,
    <<"c","a","r","_","c","a","r","r","i","e","r","_","e","q">>,
    <<"f","o","r","d","_","c","l","a","s","s">>,
    <<"m","i","d","w","a","y","_","c","l","a","s","s">>,
    <<"i","n","v","i","n","c","i","b","l","e","_","c","l","a","s","s">> >>

\* the characters of the file names, in the order of their code points
CodeOrder == <<" ","(",")","-",".","/","0","1","2","3","4","5","6","7","8","9","=","A","B","C","D","E","F","G","H","I","J","K","L","M","N","O","P","Q","R","S","T","U","V","W","X","Y","Z","[","]","_","a","b","c","d","e","f","g","h","i","j","k","l","m","n","o","p","q","r","s","t","u","v","w","x","y","z","|">>

ord(c) == CHOOSE i \in DOMAIN CodeOrder : CodeOrder[i] = c

\* a < b for two str
RECURSIVE str_less(_, _)
str_less(a, b) ==
  IF b = <<>> THEN FALSE
  ELSE IF a = <<>> THEN TRUE
  ELSE IF Head(a) # Head(b) THEN ord(Head(a)) < ord(Head(b))
  ELSE str_less(Tail(a), Tail(b))

\* sorted(S) for a set of str
RECURSIVE sorted(_)
sorted(S) ==
  IF S = {} THEN <<>>
  ELSE LET m == CHOOSE x \in S : \A y \in S \ {x} : str_less(x, y)
       IN <<m>> \o sorted(S \ {m})

\* sorted(glob.glob(root_dir/*.txt)): '*' matches no leading dot
GetFileFromThisRootDir(dir) ==
  sorted({n \in DOMAIN dir : endswith(n, <<".","t","x","t">>) /\ Head(n) # "."})

custombasename(path) == splitext_stem(path)

\* xs[i] * ys[j] - xs[j] * ys[i] summed over the edges; abs(s) / 2.0 as a
\* number of eighths (the coordinates are halves)
poly_area(poly_xy) ==
  LET xs == [i \in 1..4 |-> poly_xy[2 * i - 1]]
      ys == [i \in 1..4 |-> poly_xy[2 * i]]
      RECURSIVE sum(_)
      sum(i) == IF i > 4 THEN 0
                ELSE LET j == (i % 4) + 1
                     IN xs[i] * ys[j] - xs[j] * ys[i] + sum(i + 1)
  IN Abs(sum(1))

\* the lines of a text file
RECURSIVE readlines(_)
readlines(text) ==
  IF text = <<>> THEN <<>>
  ELSE LET n == IF \E i \in 1..Len(text) : text[i] = "\n"
                THEN CHOOSE i \in 1..Len(text) :
                       text[i] = "\n" /\ \A j \in 1..(i - 1) : text[j] # "\n"
                ELSE Len(text)
       IN <<SubSeq(text, 1, n)>> \o readlines(SubSeq(text, n + 1, Len(text)))

\* one line -> <<>> (ignored) or <<object>>
parse_dota_line(ln) ==
  LET line == strip(ln, Whitespace)
      parts == split(line)
  IN IF line = <<>> THEN <<>>
     ELSE IF Len(parts) < 10 THEN <<>>
     ELSE LET coords == [k \in 1..8 |-> float_of(parts[k])]
          IN IF \E k \in 1..8 : coords[k] = <<>> THEN <<>>
             ELSE LET poly == [k \in 1..8 |-> coords[k][1]]
                  IN << [name |-> parts[9], poly |-> poly, area |-> poly_area(poly)] >>

RECURSIVE parse_dota_lines(_)
parse_dota_lines(lines) ==
  IF lines = <<>> THEN <<>>
  ELSE parse_dota_line(Head(lines)) \o parse_dota_lines(Tail(lines))

parse_dota_poly2(text) == parse_dota_lines(readlines(text))

\* variant: the category ids start at 0
build_categories_zero_based(class_names) ==
  [idx \in 1..Len(class_names) |->
     [id |-> idx - 1, name |-> class_names[idx], supercategory |-> class_names[idx]]]

\* enumerate() counts from 0 and the id is idx + 1: the position, from 1
build_categories(class_names) ==
  [idx \in 1..Len(class_names) |->
     [id |-> idx, name |-> class_names[idx], supercategory |-> class_names[idx]]]

in_list(name, class_names) == \E i \in DOMAIN class_names : class_names[i] = name

\* variant: the relaxed matching is tried in strict mode too
resolve_name_never_strict(name, class_names, strict) ==
  IF in_list(name, class_names) THEN <<name>>
  ELSE LET try_names == <<name, lower(name), replace(name, "_", " ")>>
       IN IF \E k \in 1..3 : in_list(try_names[k], class_names)
          THEN << try_names[CHOOSE k \in 1..3 :
                     /\ in_list(try_names[k], class_names)
                     /\ \A j \in 1..(k - 1) : ~in_list(try_names[j], class_names)] >>
          ELSE <<>>

\* lines 187-202: <<>> when the instance is dropped, else <<name>>
resolve_name(name, class_names, strict) ==
  IF in_list(name, class_names) THEN <<name>>
  ELSE IF strict THEN <<>>
  ELSE LET try_names == <<name, lower(name), replace(name, "_", " ")>>
       IN IF \E k \in 1..3 : in_list(try_names[k], class_names)
          THEN << try_names[CHOOSE k \in 1..3 :
                     /\ in_list(try_names[k], class_names)
                     /\ \A j \in 1..(k - 1) : ~in_list(try_names[j], class_names)] >>
          ELSE <<>>

\* class_names.index(name) + 1
cat_id_of(name, class_names) ==
  CHOOSE i \in DOMAIN class_names :
    class_names[i] = name /\ \A j \in 1..(i - 1) : class_names[j] # name

Min(S) == CHOOSE x \in S : \A y \in S : x <= y

Max(S) == CHOOSE x \in S : \A y \in S : x >= y

\* lines 205-208
bbox_of(poly) ==
  LET xs == {poly[2 * i - 1] : i \in 1..4}
      ys == {poly[2 * i] : i \in 1..4}
  IN <<Min(xs), Min(ys), Max(xs) - Min(xs), Max(ys) - Min(ys)>>

image_try_exts == << <<".","b","m","p">>, <<".","j","p","g">>, <<".","p","n","g">>, <<".","t","i","f">>, <<".","t","i","f","f">>, <<".","j","p","e","g">> >>

\* lines 163-168: <<>> when no image is found, else <<file name>>
find_image(stem, dir) ==
  IF \E k \in DOMAIN image_try_exts : stem \o image_try_exts[k] \in DOMAIN dir
  THEN << stem \o image_try_exts[CHOOSE k \in DOMAIN image_try_exts :
                   /\ stem \o image_try_exts[k] \in DOMAIN dir
                   /\ \A j \in 1..(k - 1) : stem \o image_try_exts[j] \notin DOMAIN dir] >>
  ELSE <<>>

\* os.path.dirname(path)
dirname(path) ==
  IF \E i \in 1..Len(path) : path[i] = "/"
  THEN LET i == CHOOSE k \in 1..Len(path) : path[k] = "/" /\ \A j \in (k + 1)..Len(path) : path[j] # "/"
           head == SubSeq(path, 1, i)
       IN IF rstrip(head, {"/"}) = <<>> THEN head ELSE rstrip(head, {"/"})
  ELSE <<>>

\* the directories os.makedirs(d) makes sure of: d and the ones above it
RECURSIVE ancestors(_)
ancestors(d) == IF d = <<>> \/ d = <<"/">> THEN {} ELSE {d} \cup ancestors(dirname(d))


(***************************************************************************)
(* State                                                                   *)
(***************************************************************************)
VARIABLES
  pc,           \* where the running tool is
  \* convert_split(root_dir, out_prefix, strict_l2, sanitize_l3)
  img_dir,      \* root_dir/images: the names of its files
  ann_dir,      \* root_dir/Annotations: stem of each <stem>.xml -> document
  strict_l2,
  sanitize_l3,
  img_stems,    \* the part of img_stems the loop has not reached yet
  out_l1,       \* root_dir/{out_prefix}_L1: file name -> text
  out_l2,
  out_l3,
  out_before,   \* what the three output directories held before the run
  \* convert_one_split(srcpath, destfile, class_names, strict)
  image_dir,    \* srcpath/images: file name -> <<width, height>>
  label_dir,    \* srcpath/labelTxt: file name -> text
  class_names,
  strict,
  destfile,
  dirs,         \* the directories that exist
  data,         \* the document being built
  image_id,
  ann_id,
  label_files,  \* the label files the loop has not reached yet
  cur_image,    \* <<>>, or <<the images[] entry of the current label file>>
  objects,      \* the objects of the current label file not reached yet
  saved,        \* <<>>, or <<the document written to destfile>>
  \* the pure functions on their own
  fn_name,      \* a class name
  fn_rbox,      \* a rotated box <<cx, cy, w, h, ang>>
  fn_out        \* what the functions returned, by function

conv_vars == <<img_dir, ann_dir, strict_l2, sanitize_l3, img_stems,
               out_l1, out_l2, out_l3, out_before>>

asm_vars == <<image_dir, label_dir, class_names, strict, destfile, dirs, data,
              image_id, ann_id, label_files, cur_image, objects, saved>>

fn_vars == <<fn_name, fn_rbox, fn_out>>

vars == <<pc, conv_vars, asm_vars, fn_vars>>

EmptyDir == [n \in {} |-> <<>>]

\* the state of the tools that are not running
ConvIdle ==
  /\ img_dir = {} /\ ann_dir = EmptyDir /\ strict_l2 = FALSE /\ sanitize_l3 = FALSE
  /\ img_stems = <<>> /\ out_l1 = EmptyDir /\ out_l2 = EmptyDir /\ out_l3 = EmptyDir
  /\ out_before = EmptyDir

AsmIdle ==
  /\ image_dir = EmptyDir /\ label_dir = EmptyDir /\ class_names = <<>>
  /\ strict = FALSE /\ destfile = <<>> /\ dirs = {} /\ data = <<>>
  /\ image_id = 0 /\ ann_id = 0 /\ label_files = <<>> /\ cur_image = <<>>
  /\ objects = <<>> /\ saved = <<>>

FnIdle == fn_name = <<>> /\ fn_rbox = <<>> /\ fn_out = [fn |-> "none"]

(***************************************************************************)
(* convert_split: the inputs                                               *)
(***************************************************************************)
MaxImages == 2

MaxObjs == 2

ImageNamePool == { <<"a",".","b","m","p">>, <<"a",".","j","p","g">>, <<"b",".","T","I","F">>, <<"n","o","t","e","s",".","t","x","t">> }

Listings == {S \in SUBSET ImageNamePool : Cardinality(S) <= MaxImages}

BaseObj(two) ==
  [Class_ID |-> <<"1","0","0","0","0","0","0">> \o two, difficult |-> <<"0">>, mbox_cx |-> <<"1","0">>,
   mbox_cy |-> <<"1","0">>, mbox_w |-> <<"4">>, mbox_h |-> <<"2">>, mbox_ang |-> <<"0">>]

\* one object of every class of the table, and one of a class id outside it
ClassObjs == {BaseObj(HRSC_CLASSES_ID[i]) : i \in DOMAIN HRSC_CLASSES_ID} \cup {BaseObj(<<"2","1">>)}

\* a difficult 'ship' turned by a quarter, a 'Nimitz', an object with no width
ShipObj == [BaseObj(<<"0","1">>) EXCEPT !.difficult = <<" ","1"," ">>, !.mbox_cx = <<"7",".","5">>, !.mbox_ang = HalfPi]

NimitzObj == BaseObj(<<"0","5">>)

NoWidthObj == [BaseObj(<<"0","2">>) EXCEPT !.mbox_w = <<>>]

MixPool == {ShipObj, NimitzObj, NoWidthObj}

SeqsUpTo(S, n) == UNION {[1..k -> S] : k \in 0..n}

ObjDoc(objs) == [kind |-> "objects", objs |-> objs]

Docs ==
  {[kind |-> "malformed", objs |-> <<>>], [kind |-> "noobjects", objs |-> <<>>]}
    \cup {ObjDoc(<<o>>) : o \in ClassObjs}
    \cup {ObjDoc(os) : os \in SeqsUpTo(MixPool, MaxObjs)}

SmallDocs == {ObjDoc(<<ShipObj, NimitzObj>>)}

\* the annotation directories: a.xml is any document, b.xml the one with a
\* 'ship' and a 'Nimitz'
AnnDirs ==
  {EmptyDir}
    \cup {[n \in {<<"a">>} |-> d] : d \in Docs}
    \cup {[n \in {<<"b">>} |-> d] : d \in SmallDocs}
    \cup UNION {{[n \in {<<"a">>, <<"b">>} |-> IF n = <<"a">> THEN da ELSE db] : da \in Docs} : db \in SmallDocs}

\* the output directories of an earlier run, or none
OldOutDirs ==
  {EmptyDir,
   [n \in { <<"a",".","t","x","t">>, <<"o","l","d",".","t","x","t">> } |-> <<"1",".","0"," ","1",".","0"," ","2",".","0"," ","1",".","0"," ","2",".","0"," ","2",".","0"," ","1",".","0"," ","2",".","0"," ","s","h","i","p"," ","0">> \o <<"\n">>]}

Perms(S) == {f \in [1..Cardinality(S) -> S] : \A i, j \in 1..Cardinality(S) : f[i] = f[j] => i = j}

(***************************************************************************)
(* convert_split: the run                                                  *)
(***************************************************************************)
InitConv ==
  /\ pc = "convert_split"
  /\ img_dir \in Listings
  /\ ann_dir \in AnnDirs
  /\ strict_l2 \in BOOLEAN
  /\ sanitize_l3 \in BOOLEAN
  /\ img_stems = <<>>
  /\ out_before \in OldOutDirs
  /\ out_l1 = out_before /\ out_l2 = out_before /\ out_l3 = out_before
  /\ AsmIdle /\ FnIdle

\* lines 188-201: os.listdir gives the names in any order
ListImages ==
  /\ pc = "convert_split"
  /\ \E names \in Perms({n \in img_dir : is_image_name(n)}) :
       img_stems' = [i \in DOMAIN names |-> splitext_stem(names[i])]
  /\ pc' = "for_stem"
  /\ UNCHANGED <<img_dir, ann_dir, strict_l2, sanitize_l3, out_l1, out_l2, out_l3, out_before>>
  /\ UNCHANGED <<asm_vars, fn_vars>>

\* lines 203-216: an image that has no annotation document
ConvertUnannotated ==
  /\ pc = "for_stem"
  /\ img_stems # <<>>
  /\ LET stem == Head(img_stems)
         p == stem \o <<".","t","x","t">>
     IN /\ stem \notin DOMAIN ann_dir
        /\ out_l1' = write_labeltxt(out_l1, p, <<>>)
        /\ out_l2' = write_labeltxt(out_l2, p, <<>>)
        /\ out_l3' = write_labeltxt(out_l3, p, <<>>)
  /\ img_stems' = Tail(img_stems)
  /\ UNCHANGED <<pc, img_dir, ann_dir, strict_l2, sanitize_l3, out_before>>
  /\ UNCHANGED <<asm_vars, fn_vars>>

\* lines 203-210, 218-244: an image that has one
ConvertAnnotated ==
  /\ pc = "for_stem"
  /\ img_stems # <<>>
  /\ LET stem == Head(img_stems)
         p == stem \o <<".","t","x","t">>
     IN /\ stem \in DOMAIN ann_dir
        /\ LET items == parse_xml_items(ann_dir[stem])
           IN /\ out_l1' = write_labeltxt(out_l1, p, l1_rows_of(items))
              /\ out_l2' = write_labeltxt(out_l2, p, l2_rows_of(items, strict_l2))
              /\ out_l3' = write_labeltxt(out_l3, p, l3_rows_of(items, sanitize_l3))
  /\ img_stems' = Tail(img_stems)
  /\ UNCHANGED <<pc, img_dir, ann_dir, strict_l2, sanitize_l3, out_before>>
  /\ UNCHANGED <<asm_vars, fn_vars>>

\* the loop is over: convert_split returns
ConvertReturn ==
  /\ pc = "for_stem"
  /\ img_stems = <<>>
  /\ pc' = "returned"
  /\ UNCHANGED <<conv_vars, asm_vars, fn_vars>>

NextConv == ListImages \/ ConvertUnannotated \/ ConvertAnnotated \/ ConvertReturn

Spec == InitConv /\ [][NextConv]_vars


(***************************************************************************)
(* Properties of convert_split                                             *)
(***************************************************************************)
Images == {n \in img_dir : is_image_name(n)}

ImageStems == {splitext_stem(n) : n \in Images}

LabelName(stem) == stem \o <<".","t","x","t">>

OutDirs == <<out_l1, out_l2, out_l3>>

\* an image with no annotation document, or with one that does not parse
Unannotated(stem) == stem \notin DOMAIN ann_dir \/ ann_dir[stem].kind = "malformed"

\* the objects of a document that have their five numeric fields
Extractable(doc) ==
  IF doc.kind # "objects" THEN <<>>
  ELSE SelectSeq(doc.objs, LAMBDA o :
         /\ o.mbox_cx # <<>> /\ o.mbox_cy # <<>> /\ o.mbox_w # <<>>
         /\ o.mbox_h # <<>> /\ o.mbox_ang # <<>>)

\* the position of a class id in the table, 0 when it is not in it
ClassIndex(class_id) ==
  IF \E i \in DOMAIN HRSC_CLASSES_ID : class_id = <<"1","0","0","0","0","0","0">> \o HRSC_CLASSES_ID[i]
  THEN CHOOSE i \in DOMAIN HRSC_CLASSES_ID : class_id = <<"1","0","0","0","0","0","0">> \o HRSC_CLASSES_ID[i]
  ELSE 0

FineName(class_id) ==
  IF ClassIndex(class_id) = 0 THEN <<"s","h","i","p">> ELSE HRSC_CLASSES[ClassIndex(class_id)]

\* what a written line holds between its eight coordinates and its last field
LineCategory(line) ==
  LET parts == split(line) IN join(<<" ">>, SubSeq(parts, 9, Len(parts) - 1))

\* C1 as claimed, for output directories that start empty: after
\* convert_split returns, each output directory holds exactly N files, N the
\* number of images, one <stem>.txt per image, empty for an unannotated one.
C1_OneFilePerImage ==
  (pc = "returned" /\ out_before = EmptyDir) =>
    \A l \in 1..3 :
      /\ Cardinality(DOMAIN OutDirs[l]) = Cardinality(Images)
      /\ \A n \in Images : LabelName(splitext_stem(n)) \in DOMAIN OutDirs[l]
      /\ \A st \in ImageStems : Unannotated(st) => OutDirs[l][LabelName(st)] = <<>>

\* C1 amended: after convert_split returns, each output directory holds
\* exactly one file <stem>.txt per distinct image stem, next to the files
\* of other names it held before, which are unchanged; the count is N when
\* no two of the N images share a stem, and less otherwise; the file of an
\* unannotated image is empty.
C1_OneFilePerStem ==
  pc = "returned" =>
    \A l \in 1..3 :
      LET d == OutDirs[l]
          stemFiles == {LabelName(st) : st \in ImageStems}
      IN /\ DOMAIN d = stemFiles \cup DOMAIN out_before
         /\ \A n \in DOMAIN out_before \ stemFiles : d[n] = out_before[n]
         /\ Cardinality(stemFiles) = Cardinality(ImageStems)
         /\ Cardinality(ImageStems) <= Cardinality(Images)
         /\ (\A m, n \in Images : splitext_stem(m) = splitext_stem(n) => m = n)
              => Cardinality(stemFiles) = Cardinality(Images)
         /\ \A st \in ImageStems : Unannotated(st) => d[LabelName(st)] = <<>>

\* C1 witness: a finished run over two images of one stem whose file, left by
\* an earlier run with a line in it, is now empty
C1_Witness ==
  /\ pc = "returned"
  /\ Cardinality(Images) = 2 /\ Cardinality(ImageStems) = 1
  /\ \E st \in ImageStems :
       /\ Unannotated(st)
       /\ LabelName(st) \in DOMAIN out_before /\ out_before[LabelName(st)] # <<>>
       /\ out_l2[LabelName(st)] = <<>>

\* C5 as claimed: every line of the three output directories has exactly 10
\* whitespace-separated fields, 8 coordinates, a name and a difficulty 0 or 1.
C5_TenFields ==
  \A l \in 1..3 : \A n \in DOMAIN OutDirs[l] :
    LET lines == readlines(OutDirs[l][n]) IN
    \A k \in DOMAIN lines :
      LET parts == split(lines[k]) IN
      /\ Len(parts) = 10
      /\ \A c \in 1..8 : float_of(parts[c]) # <<>>
      /\ parts[10] \in {<<"0">>, <<"1">>}

\* C9: for every annotated image of a finished run, L1 and L3 hold one line
\* per extracted object, in order, with the category 'ship' and the fine name
\* (sanitized under sanitize_l3; 'ship' for a class id outside the table);
\* L2 holds, in order, the lines of the objects that are not dropped, with
\* their coarse names: all of them without strict_l2, those whose coarse name
\* is not 'ship' with it.
C9_PerLevelEmission ==
  pc = "returned" =>
    \A st \in ImageStems \cap DOMAIN ann_dir :
      LET objs == Extractable(ann_dir[st])
          fine == [k \in DOMAIN objs |-> FineName(strip(objs[k].Class_ID, Whitespace))]
          kept == SelectSeq(fine, LAMBDA f : ~(strict_l2 /\ l3_to_l2(f) = <<"s","h","i","p">>))
          l1 == readlines(out_l1[LabelName(st)])
          l2 == readlines(out_l2[LabelName(st)])
          l3 == readlines(out_l3[LabelName(st)])
      IN /\ Len(l1) = Len(objs) /\ Len(l3) = Len(objs)
         /\ \A k \in DOMAIN objs :
              /\ LineCategory(l1[k]) = <<"s","h","i","p">>
              /\ LineCategory(l3[k]) = IF sanitize_l3 THEN sanitize_label(fine[k]) ELSE fine[k]
         /\ Len(l2) = Len(kept) /\ Len(l2) <= Len(l1)
         /\ ~strict_l2 => Len(l2) = Len(l1)
         /\ \A k \in DOMAIN kept :
              /\ LineCategory(l2[k]) = l3_to_l2(kept[k])
              /\ strict_l2 => LineCategory(l2[k]) # <<"s","h","i","p">>

\* C9 witness: under strict_l2, a finished image with two extracted objects,
\* a 'ship' and a 'Nimitz': L1 and L3 have two lines, L2 one
C9_Witness ==
  /\ pc = "returned" /\ strict_l2
  /\ \E st \in ImageStems \cap DOMAIN ann_dir :
       /\ ann_dir[st].kind = "objects"
       /\ Len(Extractable(ann_dir[st])) = 2
       /\ Len(readlines(out_l1[LabelName(st)])) = 2
       /\ Len(readlines(out_l3[LabelName(st)])) = 2
       /\ Len(readlines(out_l2[LabelName(st)])) = 1

\* C10 as claimed: with sanitize_l3, the L3 line of an object of the i-th
\* class carries sanitize_label(HRSC_CLASSES[i]), and the assembler run with
\* L3_NAMES_SANITIZED, strict or not, accepts it with category id i.
C10_SanitizedHandOff ==
  (pc = "returned" /\ sanitize_l3) =>
    \A st \in ImageStems \cap DOMAIN ann_dir :
      LET objs == Extractable(ann_dir[st])
          l3 == readlines(out_l3[LabelName(st)])
      IN \A k \in DOMAIN objs :
           LET i == ClassIndex(strip(objs[k].Class_ID, Whitespace))
               parsed == parse_dota_line(l3[k])
           IN i # 0 =>
                /\ LineCategory(l3[k]) = sanitize_label(HRSC_CLASSES[i])
                /\ parsed # <<>>
                /\ \A sm \in BOOLEAN :
                     LET r == resolve_name(parsed[1].name, L3_NAMES_SANITIZED, sm)
                     IN r # <<>> /\ cat_id_of(r[1], L3_NAMES_SANITIZED) = i

\* the annotations the assembler makes of a label text with class list
\* names: the objects parse_dota_poly2 reads whose name resolve_name
\* accepts, each with its category id (lines 185-204)
annotations_of(text, names, strict_mode) ==
  LET objs == parse_dota_poly2(text)
      kept == {k \in DOMAIN objs : resolve_name(objs[k].name, names, strict_mode) # <<>>}
  IN [k \in kept |-> cat_id_of(resolve_name(objs[k].name, names, strict_mode)[1], names)]

\* C11 as claimed: with strict_l2, every L2 line written for an image is
\* parsed by the assembler run with L2_NAMES, strict or not, into one
\* annotation whose category is the coarse name written on the line; so
\* the L2 annotations of an image are as many as its L2 lines.
C11_LosslessL2HandOff ==
  (pc = "returned" /\ strict_l2) =>
    \A st \in ImageStems : \A sm \in BOOLEAN :
      LET text == out_l2[LabelName(st)]
          lines == readlines(text)
          anns == annotations_of(text, L2_NAMES, sm)
      IN /\ Cardinality(DOMAIN anns) = Len(lines)
         /\ \A k \in DOMAIN lines :
              LET parsed == parse_dota_line(lines[k])
              IN /\ parsed # <<>>
                 /\ resolve_name(parsed[1].name, L2_NAMES, sm) # <<>>
                 /\ L2_NAMES[cat_id_of(resolve_name(parsed[1].name, L2_NAMES, sm)[1], L2_NAMES)]
                      = LineCategory(lines[k])


(***************************************************************************)
(* convert_one_split: the inputs                                           *)
(***************************************************************************)
MaxLines == 2

MaxPics == 2

Box1 == <<"8",".","0"," ","9",".","0"," ","1","2",".","0"," ","9",".","0"," ","1","2",".","0"," ","1","1",".","0"," ","8",".","0"," ","1","1",".","0"," ">>

Box2 == <<"1",".","5"," ","0"," ","3",".","5"," ","0"," ","3",".","5"," ","4"," ","1",".","5"," ","4"," ">>

\* a class list of a caller's own: it holds both the lowercase and the
\* space-for-underscore variant of 'Kitty_Hawk', and one name twice
CUSTOM_NAMES == << <<"k","i","t","t","y","_","h","a","w","k">>, <<"K","i","t","t","y"," ","H","a","w","k">>, <<"w","a","r","s","h","i","p">>, <<"k","i","t","t","y","_","h","a","w","k">> >>

ClassLists == {L2_NAMES, L3_NAMES_RAW, CUSTOM_NAMES}

\* lines whose name is in a list as it is, in lowercase, with spaces for
\* underscores, or only with both changes; a line of 11 fields; a line of 9
\* fields; a line with a coordinate that is no number; a blank line
NameLines ==
  { Box1 \o <<"w","a","r","s","h","i","p"," ","0">>, Box2 \o <<"W","a","r","s","h","i","p"," ","1">>, Box1 \o <<"K","i","t","t","y","_","H","a","w","k"," ","0">>,
    Box1 \o <<"m","e","r","c","h","a","n","t","_","s","h","i","p"," ","0">>, Box1 \o <<"M","e","r","c","h","a","n","t","_","S","h","i","p"," ","0">>,
    Box1 \o <<"a","i","r","c","r","a","f","t"," ","c","a","r","r","i","e","r"," ","0">> }

BadLines == { Box1 \o <<"w","a","r","s","h","i","p">>, <<"8",".","0"," ","9",".","0"," ","1","2",".","0"," ","9",".","0"," ","1","2",".","0"," ","x"," ","8",".","0"," ","1","1",".","0"," ","w","a","r","s","h","i","p"," ","0">>, <<" "," ">> }

MixLines == { Box1 \o <<"w","a","r","s","h","i","p"," ","0">>, Box2 \o <<"W","a","r","s","h","i","p"," ","1">>, Box1 \o <<"w","a","r","s","h","i","p">> }

TextOf(lines) == IF lines = <<>> THEN <<>> ELSE join(<<"\n">>, lines) \o <<"\n">>

\* a.txt: any one line, or up to MaxLines of MixLines
TextsA ==
  {TextOf(<<ln>>) : ln \in NameLines \cup BadLines}
    \cup {TextOf(lns) : lns \in SeqsUpTo(MixLines, MaxLines)}

TextsB == { TextOf(<<Box1 \o <<"w","a","r","s","h","i","p"," ","0">>>>) }

TextsC == { TextOf(<<Box2 \o <<"W","a","r","s","h","i","p"," ","1">>, Box1 \o <<"w","a","r","s","h","i","p"," ","0">>>>) }

\* the label directories: any of a.txt, b.txt, c.txt and a file glob skips
LabelDirs ==
  LET opt(name, texts) == {EmptyDir} \cup {[n \in {name} |-> t] : t \in texts}
      notes == [n \in { <<"n","o","t","e","s",".","m","d">> } |-> <<"x">>]
  IN {a @@ b @@ c @@ notes :
        a \in opt(<<"a",".","t","x","t">>, TextsA), b \in opt(<<"b",".","t","x","t">>, TextsB), c \in opt(<<"c",".","t","x","t">>, TextsC)}

\* the images: a.jpg and a.bmp, c.jpeg, and none for b.txt
PicPool == { <<"a",".","j","p","g">>, <<"a",".","b","m","p">>, <<"c",".","j","p","e","g">> }

PicSize(n) == IF n = <<"a",".","b","m","p">> THEN <<64, 48>> ELSE <<100, 80>>

ImageDirs == {[n \in S |-> PicSize(n)] : S \in {T \in SUBSET PicPool : Cardinality(T) <= MaxPics}}

\* a destination in a directory that exists, in one that does not, and a
\* bare file name
DestFiles == { <<"o","u","t","/","t","r","a","i","n",".","j","s","o","n">>, <<"n","e","w","/","s","u","b","/","t","r","a","i","n",".","j","s","o","n">>, <<"t","r","a","i","n",".","j","s","o","n">> }

(***************************************************************************)
(* convert_one_split: the run                                              *)
(***************************************************************************)
build_info == [contributor |-> "converted by dota_to_coco_multilevel.py", version |-> "1.0"]

InitAsm ==
  /\ pc = "convert_one_split"
  /\ image_dir \in ImageDirs
  /\ label_dir \in LabelDirs
  /\ class_names \in ClassLists
  /\ strict \in BOOLEAN
  /\ destfile \in DestFiles
  /\ dirs = { <<"o","u","t">> }
  /\ data = <<>>
  /\ image_id = 0 /\ ann_id = 0
  /\ label_files = <<>> /\ cur_image = <<>> /\ objects = <<>> /\ saved = <<>>
  /\ ConvIdle /\ FnIdle

\* lines 145-159
Begin ==
  /\ pc = "convert_one_split"
  /\ data' = [info |-> build_info, images |-> <<>>,
              categories |-> build_categories(class_names), annotations |-> <<>>]
  /\ image_id' = 1
  /\ ann_id' = 1
  /\ label_files' = GetFileFromThisRootDir(label_dir)
  /\ pc' = "for_lf"
  /\ UNCHANGED <<image_dir, label_dir, class_names, strict, destfile, dirs,
                 cur_image, objects, saved>>
  /\ UNCHANGED <<conv_vars, fn_vars>>

\* lines 160-171: no image for the label file, continue
SkipLabelFile ==
  /\ pc = "for_lf"
  /\ label_files # <<>>
  /\ find_image(custombasename(Head(label_files)), image_dir) = <<>>
  /\ label_files' = Tail(label_files)
  /\ UNCHANGED <<pc, image_dir, label_dir, class_names, strict, destfile, dirs, data,
                 image_id, ann_id, cur_image, objects, saved>>
  /\ UNCHANGED <<conv_vars, fn_vars>>

\* variant: the entry gets the id of the annotation counter
image_entry_ann_counter(file_name, size) ==
  [file_name |-> file_name, id |-> ann_id, width |-> size[1], height |-> size[2]]

\* lines 177-182
image_entry(file_name, size) ==
  [file_name |-> file_name, id |-> image_id, width |-> size[1], height |-> size[2]]

\* lines 160-168, 174-185: the image is found, registered, the file parsed
OpenLabelFile ==
  /\ pc = "for_lf"
  /\ label_files # <<>>
  /\ LET lf == Head(label_files)
         img == find_image(custombasename(lf), image_dir)
     IN /\ img # <<>>
        /\ cur_image' = <<image_entry(img[1], image_dir[img[1]])>>
        /\ data' = [data EXCEPT !.images = Append(@, image_entry(img[1], image_dir[img[1]]))]
        /\ objects' = parse_dota_poly2(label_dir[lf])
  /\ label_files' = Tail(label_files)
  /\ pc' = "for_obj"
  /\ UNCHANGED <<image_dir, label_dir, class_names, strict, destfile, dirs,
                 image_id, ann_id, saved>>
  /\ UNCHANGED <<conv_vars, fn_vars>>

\* lines 186-201: the name of the object is not resolved, continue
DropObject ==
  /\ pc = "for_obj"
  /\ objects # <<>>
  /\ resolve_name(Head(objects).name, class_names, strict) = <<>>
  /\ objects' = Tail(objects)
  /\ UNCHANGED <<pc, image_dir, label_dir, class_names, strict, destfile, dirs, data,
                 image_id, ann_id, label_files, cur_image, saved>>
  /\ UNCHANGED <<conv_vars, fn_vars>>

\* lines 204-218
annotation_entry(obj, name) ==
  [id |-> ann_id, image_id |-> image_id, category_id |-> cat_id_of(name, class_names),
   segmentation |-> <<obj.poly>>, area |-> obj.area, bbox |-> bbox_of(obj.poly),
   iscrowd |-> 0]

\* lines 186-219: the name is resolved and the annotation appended
AcceptObject ==
  /\ pc = "for_obj"
  /\ objects # <<>>
  /\ LET obj == Head(objects)
         r == resolve_name(obj.name, class_names, strict)
     IN /\ r # <<>>
        /\ data' = [data EXCEPT !.annotations = Append(@, annotation_entry(obj, r[1]))]
  /\ ann_id' = ann_id + 1
  /\ objects' = Tail(objects)
  /\ UNCHANGED <<pc, image_dir, label_dir, class_names, strict, destfile, dirs,
                 image_id, label_files, cur_image, saved>>
  /\ UNCHANGED <<conv_vars, fn_vars>>

\* line 221
CloseLabelFile ==
  /\ pc = "for_obj"
  /\ objects = <<>>
  /\ image_id' = image_id + 1
  /\ cur_image' = <<>>
  /\ pc' = "for_lf"
  /\ UNCHANGED <<image_dir, label_dir, class_names, strict, destfile, dirs, data,
                 ann_id, label_files, objects, saved>>
  /\ UNCHANGED <<conv_vars, fn_vars>>

\* lines 224-227: os.makedirs(osp.dirname(destfile), exist_ok=True), json.dump
WriteJson ==
  /\ pc = "for_lf"
  /\ label_files = <<>>
  /\ dirname(destfile) # <<>>
  /\ dirs' = dirs \cup ancestors(dirname(destfile))
  /\ saved' = <<data>>
  /\ pc' = "saved"
  /\ UNCHANGED <<image_dir, label_dir, class_names, strict, destfile, data,
                 image_id, ann_id, label_files, cur_image, objects>>
  /\ UNCHANGED <<conv_vars, fn_vars>>

\* line 224: os.makedirs('') raises FileNotFoundError, nothing is written
MakedirsFails ==
  /\ pc = "for_lf"
  /\ label_files = <<>>
  /\ dirname(destfile) = <<>>
  /\ pc' = "FileNotFoundError"
  /\ UNCHANGED <<asm_vars, conv_vars, fn_vars>>

NextAsm ==
  \/ Begin \/ SkipLabelFile \/ OpenLabelFile \/ DropObject \/ AcceptObject
  \/ CloseLabelFile \/ WriteJson \/ MakedirsFails

SpecAsm == InitAsm /\ [][NextAsm]_vars


(***************************************************************************)
(* The pure functions on their own                                         *)
(***************************************************************************)
MaxSide == 4

\* the 31 names of the table and strings that are not in it
OtherNames ==
  { <<>>, <<"b","o","a","t">>, <<"F","r","i","g","a","t","e"," ","7">>, <<"S","h","i","p">>, <<" "," ","W","A","R","C","R","A","F","T"," ">>, <<"w","a","r","c","r","a","f","t"," ","2">>,
    <<"U","S","S"," ","N","i","m","i","t","z"," ","(","C","V","N","-","6","8",")">>, <<"Y","e","l","l","o","w"," ","S","u","b","m","a","r","i","n","e">>, <<"a","i","r","c","r","a","f","t","_","c","a","r","r","i","e","r">>, <<" ","-","-"," ">> }

FnNames == {HRSC_CLASSES[i] : i \in DOMAIN HRSC_CLASSES} \cup OtherNames

\* boxes <<cx, cy, w, h, ang>>: centres on the half grid, whole sides from 0
\* to MaxSide, any quarter turn
FnBoxes ==
  {<<cx, cy, 2 * w, 2 * h, ang>> :
     cx \in {-3, 15, 20}, cy \in {0, 20}, w \in 0..MaxSide, h \in 0..MaxSide, ang \in 0..3}

InitFn ==
  /\ pc = "call"
  /\ \/ fn_name \in FnNames /\ fn_rbox = <<>>
     \/ fn_name = <<"s","h","i","p">> /\ fn_rbox \in FnBoxes
  /\ fn_out = [fn |-> "none"]
  /\ ConvIdle /\ AsmIdle

CallL3ToL2 ==
  /\ pc = "call" /\ fn_rbox = <<>>
  /\ fn_out' = [fn |-> "l3_to_l2", ret |-> l3_to_l2(fn_name)]
  /\ pc' = "returned"
  /\ UNCHANGED <<fn_name, fn_rbox, conv_vars, asm_vars>>

CallSanitizeLabel ==
  /\ pc = "call" /\ fn_rbox = <<>>
  /\ fn_out' = [fn |-> "sanitize_label", ret |-> sanitize_label(fn_name)]
  /\ pc' = "returned"
  /\ UNCHANGED <<fn_name, fn_rbox, conv_vars, asm_vars>>

\* the box to its polygon (line 164), the polygon to a line (line 238), the
\* line to the assembler's object, bbox and area (lines 185, 205-208, 215)
CallGeometry ==
  /\ pc = "call" /\ fn_rbox # <<>>
  /\ LET poly == rbox2poly_single(fn_rbox)
         line == row_text(poly, fn_name, 0)
         objs == parse_dota_line(line)
     IN fn_out' = [fn |-> "rbox2poly_single", ret |-> poly, line |-> line,
                   bbox |-> bbox_of(objs[1].poly), area |-> objs[1].area]
  /\ pc' = "returned"
  /\ UNCHANGED <<fn_name, fn_rbox, conv_vars, asm_vars>>

NextFn == CallL3ToL2 \/ CallSanitizeLabel \/ CallGeometry

SpecFn == InitFn /\ [][NextFn]_vars


(***************************************************************************)
(* Properties of convert_one_split                                         *)
(***************************************************************************)
\* the label files that have an image
LabelFilesWithImage ==
  {n \in DOMAIN label_dir :
     /\ endswith(n, <<".","t","x","t">>)
     /\ \E k \in DOMAIN image_try_exts :
          splitext_stem(n) \o image_try_exts[k] \in DOMAIN image_dir}

Finished == pc \in {"saved", "FileNotFoundError"}

\* C2: at every point of a run the ids of images[] are 1..K and those of
\* annotations[] 1..M' in the order of the entries, the images follow the
\* order of the label files, the counters are one past the ids given out,
\* and at the end K is the number of label files that have an image.
C2_DenseIds ==
  data # <<>> =>
    /\ \A i \in DOMAIN data.images : data.images[i].id = i
    /\ \A i \in DOMAIN data.annotations : data.annotations[i].id = i
    /\ \A i, j \in DOMAIN data.images :
         i < j => str_less(LabelName(splitext_stem(data.images[i].file_name)),
                           LabelName(splitext_stem(data.images[j].file_name)))
    /\ \A i, j \in DOMAIN data.annotations :
         i < j => data.annotations[i].image_id <= data.annotations[j].image_id
    /\ ann_id = Len(data.annotations) + 1
    /\ image_id = IF pc = "for_obj" THEN Len(data.images) ELSE Len(data.images) + 1
    /\ Finished => Len(data.images) = Cardinality(LabelFilesWithImage)
    /\ pc = "saved" => saved = <<data>>

\* C2 witness: a strict run over a.txt, b.txt (no image) and c.txt that has
\* dropped an instance of each of a.txt and c.txt and saved images 1, 2 and
\* annotations 1, 2
C2_Witness ==
  /\ pc = "saved" /\ strict
  /\ <<"b",".","t","x","t">> \in DOMAIN label_dir /\ <<"a",".","t","x","t">> \in DOMAIN label_dir
  /\ Len(parse_dota_poly2(label_dir[<<"a",".","t","x","t">>])) = 2
  /\ Len(saved[1].images) = 2 /\ saved[1].images[2].id = 2
  /\ saved[1].images[2].file_name = <<"c",".","j","p","e","g">>
  /\ Len(saved[1].annotations) = 2
  /\ saved[1].annotations[2].id = 2 /\ saved[1].annotations[2].image_id = 2

\* every annotation of a document refers to an image and a category of it
RefersWithin(d) ==
  \A i \in DOMAIN d.annotations :
    /\ \E k \in DOMAIN d.images : d.images[k].id = d.annotations[i].image_id
    /\ \E c \in DOMAIN d.categories : d.categories[c].id = d.annotations[i].category_id

\* a step that appends an annotation
Appends == data # <<>> /\ Len(data'.annotations) = Len(data.annotations) + 1

NewAnnotation == data'.annotations[Len(data'.annotations)]

\* C3: after every step every annotation refers to an image and a category
\* of the document, and so in the document that is saved; an annotation that
\* is appended refers to the image entry of the label file being read, which
\* is in images[] already, and to the category whose name is the object's
\* name or the variant of it found in class_names.
C3_ReferentialIntegrity ==
  [][ /\ data' # <<>> => RefersWithin(data')
      /\ saved' # <<>> => saved'[1] = data' /\ RefersWithin(saved'[1])
      /\ Appends =>
           /\ cur_image # <<>>
           /\ \E k \in DOMAIN data.images : data.images[k] = cur_image[1]
           /\ NewAnnotation.image_id = cur_image[1].id
           /\ \E c \in DOMAIN data'.categories :
                /\ data'.categories[c].id = NewAnnotation.category_id
                /\ data'.categories[c].name \in
                     {Head(objects).name, lower(Head(objects).name),
                      replace(Head(objects).name, "_", " ")}
    ]_vars

\* C3 witness: a saved document whose second image has an annotation of the
\* second category
C3_Witness ==
  /\ pc = "saved"
  /\ Len(saved[1].images) = 2
  /\ \E i \in DOMAIN saved[1].annotations :
       saved[1].annotations[i].image_id = 2 /\ saved[1].annotations[i].category_id = 2

\* the first position of a name in class_names
FirstIndex(name) ==
  CHOOSE i \in DOMAIN class_names :
    class_names[i] = name /\ \A j \in 1..(i - 1) : class_names[j] # name

Listed(name) == \E i \in DOMAIN class_names : class_names[i] = name

\* a step of the object loop: the object is dropped, or accepted with an id
StepsObject == pc = "for_obj" /\ objects # <<>> /\ objects' = Tail(objects)

Dropped == data' = data /\ ann_id' = ann_id

AcceptedAs(id) == Appends /\ NewAnnotation.category_id = id

\* C6: an object whose name is in class_names is accepted with the id of
\* the name in both modes; otherwise it is dropped in strict mode, and in
\* non-strict mode accepted with the id of its lowercase variant if that is
\* in class_names, else with the id of its variant with spaces for
\* underscores if that is, else dropped.
C6_NameResolution ==
  [][ StepsObject =>
        LET name == Head(objects).name
            low == lower(name)
            spaced == replace(name, "_", " ")
        IN IF Listed(name) THEN AcceptedAs(FirstIndex(name))
           ELSE IF strict THEN Dropped
           ELSE IF Listed(low) THEN AcceptedAs(FirstIndex(low))
           ELSE IF Listed(spaced) THEN AcceptedAs(FirstIndex(spaced))
           ELSE Dropped
    ]_vars

\* C6 witness: a non-strict run with CUSTOM_NAMES has read the one object
\* 'Kitty_Hawk', whose two variants are both in the list, and given it the id
\* of the lowercase one
C6_Witness ==
  /\ pc = "saved" /\ ~strict /\ class_names = CUSTOM_NAMES
  /\ <<"a",".","t","x","t">> \in DOMAIN label_dir
  /\ label_dir[<<"a",".","t","x","t">>] = TextOf(<<Box1 \o <<"K","i","t","t","y","_","H","a","w","k"," ","0">>>>)
  /\ Len(saved[1].annotations) >= 1
  /\ saved[1].annotations[1].image_id = 1
  /\ saved[1].annotations[1].category_id = 1

\* C7 as claimed: whatever the destination, a run that is over has made the
\* directory of the destination and written the document, with no error.
C7_DestinationNeverFails ==
  Finished =>
    /\ pc = "saved" /\ saved = <<data>>
    /\ dirname(destfile) \in dirs

(***************************************************************************)
(* Properties of the pure functions                                        *)
(***************************************************************************)
CoarseNames == { <<"a","i","r","c","r","a","f","t"," ","c","a","r","r","i","e","r">>, <<"w","a","r","s","h","i","p">>, <<"m","e","r","c","h","a","n","t"," ","s","h","i","p">>, <<"s","u","b","m","a","r","i","n","e">> }

TableNames == {HRSC_CLASSES[i] : i \in DOMAIN HRSC_CLASSES}

\* no rule of the cascade applies to the name
MatchesNoRule(name) ==
  LET n == lower(strip(name, Whitespace)) IN
  /\ ~contains(<<"s","u","b","m","a","r","i","n","e">>, n) /\ ~contains(<<"c","a","r","r","i","e","r">>, n)
  /\ n \notin { <<"w","a","r","c","r","a","f","t">>, <<"m","e","r","c","h","a","n","t"," ","s","h","i","p">> }
  /\ \A keys \in {carrier_keys, warship_keys, merchant_keys} :
       \A i \in DOMAIN keys : ~contains(keys[i], n)

\* C4 as claimed: l3_to_l2 maps each of the 31 names of the table to one of
\* the 4 coarse names, and a string that matches no rule to 'ship'.
C4_TableNamesAreCoarse ==
  fn_out.fn = "l3_to_l2" =>
    /\ fn_name \in TableNames => fn_out.ret \in CoarseNames
    /\ MatchesNoRule(fn_name) => fn_out.ret = <<"s","h","i","p">>

\* C4 amended: l3_to_l2 maps each of the 30 names of the table other than
\* 'ship' to one of the 4 coarse names; it maps 'ship', and every string
\* that matches no rule, to 'ship'; so it returns one of 5 names.
C4_CoarseOrShip ==
  fn_out.fn = "l3_to_l2" =>
    /\ fn_out.ret \in CoarseNames \cup { <<"s","h","i","p">> }
    /\ fn_name \in TableNames \ { <<"s","h","i","p">> } => fn_out.ret \in CoarseNames
    /\ fn_name = <<"s","h","i","p">> => fn_out.ret = <<"s","h","i","p">>
    /\ MatchesNoRule(fn_name) => fn_out.ret = <<"s","h","i","p">>
    /\ fn_out.ret = <<"s","h","i","p">> => MatchesNoRule(fn_name)

\* C4 witness: l3_to_l2('ship') has returned 'ship'
C4_Witness ==
  /\ fn_out.fn = "l3_to_l2" /\ fn_name = <<"s","h","i","p">> /\ fn_name \in TableNames
  /\ fn_out.ret = <<"s","h","i","p">>

\* C8: for a box <<cx, cy, w, h, 0>> with sides w, h >= 0, the polygon is
\* (cx-w/2, cy-h/2), (cx+w/2, cy-h/2), (cx+w/2, cy+h/2), (cx-w/2, cy+h/2);
\* the bbox the assembler computes from the line written for it is
\* (cx-w/2, cy-h/2, w, h) and the area w*h.  Halves, and eighths for the area.
C8_AngleZero ==
  (fn_out.fn = "rbox2poly_single" /\ fn_rbox[5] = 0) =>
    LET cx == fn_rbox[1]  cy == fn_rbox[2]  w == fn_rbox[3]  h == fn_rbox[4] IN
    /\ 2 * fn_out.ret[1] = 2 * cx - w /\ 2 * fn_out.ret[2] = 2 * cy - h
    /\ 2 * fn_out.ret[3] = 2 * cx + w /\ 2 * fn_out.ret[4] = 2 * cy - h
    /\ 2 * fn_out.ret[5] = 2 * cx + w /\ 2 * fn_out.ret[6] = 2 * cy + h
    /\ 2 * fn_out.ret[7] = 2 * cx - w /\ 2 * fn_out.ret[8] = 2 * cy + h
    /\ 2 * fn_out.bbox[1] = 2 * cx - w /\ 2 * fn_out.bbox[2] = 2 * cy - h
    /\ fn_out.bbox[3] = w /\ fn_out.bbox[4] = h
    /\ fn_out.area = 2 * w * h

\* C8 witness: the box (10, 10, 4, 2, 0) has given the line
\* '8.0 9.0 12.0 9.0 12.0 11.0 8.0 11.0 ship 0', bbox (8, 9, 4, 2), area 8
C8_Witness ==
  /\ fn_out.fn = "rbox2poly_single"
  /\ fn_rbox = <<20, 20, 8, 4, 0>>
  /\ fn_out.ret = <<16, 18, 24, 18, 24, 22, 16, 22>>
  /\ fn_out.line = Box1 \o <<"s","h","i","p"," ","0">>
  /\ fn_out.bbox = <<16, 18, 8, 4>>
  /\ fn_out.area = 64

=============================================================================
